---- MODULE Spec2Model ----
(***************************************************************************)
(* Model of src/bot.py, a Telegram bot that tracks which driver holds      *)
(* which car in a Google-Sheets log ("Log" worksheet = the ledger).        *)
(*                                                                         *)
(* Modelling conventions                                                   *)
(*  - A ledger row is [ts, name, plate, action], the four columns written  *)
(*    by sheet_log.append_row (bot.py:882, 889).  "out" is an acquire,     *)
(*    "in" a release.                                                      *)
(*  - Timestamps are stored as "%Y-%m-%d %H:%M" strings (bot.py:867) and   *)
(*    compared as strings; that order is the chronological order at minute *)
(*    resolution, so ts is a minute counter and two commands processed in  *)
(*    the same minute carry the same ts.                                   *)
(*  - Plates are texts; Normalize models str(plate).strip().upper() on a   *)
(*    small universe of texts.  Plates are assumed to be read back from    *)
(*    the sheet as text.                                                   *)
(*  - Inline buttons: "take|p" is offered by take_car_menu, "return|p" by  *)
(*    return_car_menu.  Both menus are read-only and may be opened any     *)
(*    number of times, so a button once offered can be pressed at any      *)
(*    later time.  The guards of the command actions say which buttons a   *)
(*    user can have been offered.                                          *)
(***************************************************************************)
EXTENDS Integers, Sequences, FiniteSets, TLC

VARIABLES
  now,        \* wall clock in minutes (datetime.now(UAE_TZ) at minute resolution)
  ledger,     \* rows of the Log worksheet, in storage order
  cars,       \* column 1 of the Cars worksheet (without the header), in storage order
  pending,    \* per user: the callback query whose handler is suspended in query.answer()
  reply,      \* what the last finished callback handler told its user
  view,       \* the status lines or the menu the last message handler sent
  drivers,    \* rows of the Drivers worksheet: [name, id]
  prompts,    \* the access-request messages in the admin chat, by message number
  snoozed,    \* bot_data["snoozed_requests"]
  sent,       \* per requester: how many messages of each kind the bot has sent
  settings,   \* the Settings worksheet: setting -> "True" / "False"
  queries,    \* callback queries of the admin chat not handled yet, oldest first
  max_attempts,    \* retry_gsheet_operation: its two parameters
  backoff_factor,
  script,     \* how the successive calls of the wrapped function end
  attempt,    \* the wrapper's loop counter
  calls,      \* how often the wrapper has called the wrapped function
  sleeps,     \* the seconds of each time.sleep of the wrapper, in order
  outcome,    \* how the wrapper has ended, and with which call's result or error
  admins,     \* rows of the Admins worksheet: [name, id]
  awaiting,   \* per user: context.user_data["await"]
  buttons,    \* inline buttons on a user's screen: <<user, action, argument>>
  header,     \* row 1 of the Log worksheet
  maintenance \* rows of the Maintenance worksheet: [plate, last, next]

carVars == <<ledger, cars, pending, reply, view>>

accessVars == <<drivers, prompts, snoozed, sent, settings, queries>>

retryVars ==
  <<max_attempts, backoff_factor, script, attempt, calls, sleeps, outcome>>

adminVars == <<admins, awaiting, buttons>>

vars == <<now, header, maintenance, carVars, accessVars, retryVars, adminVars>>

-----------------------------------------------------------------------------
(* Bounds *)

MaxLog == 4        \* rows the ledger may grow to
MaxTime == 1       \* last minute of the clock
MaxRaceLog == 3    \* rows the ledger may grow to with handlers in flight
MaxSheetLen == 3   \* rows of an arbitrary Log worksheet
MaxPrompts == 3    \* access-request messages, in the admin chat or snoozed
MaxHours == 2      \* hours the clock runs while access requests are decided
MaxQueries == 2    \* callback queries of the admin chat waiting to be handled
MaxAttempts == 3   \* largest max_attempts the wrapper is given
MaxStoreLog == 3   \* rows the ledger may grow to while store calls fail
MaxAdmins == 3     \* rows the Admins worksheet may grow to
MaxDrivers == 3    \* rows the Drivers worksheet may grow to by add_driver
MaxCars == 3       \* rows the Cars worksheet may grow to
MaxPoolLog == 2    \* rows of the Log worksheet while the pool is edited
MaxAuthLog == 2    \* rows the ledger may grow to while drivers are removed
MaxMaintenance == 3  \* rows the Maintenance worksheet may grow to
MaxMaintSteps == 3   \* steps of the clock while maintenance is checked

-----------------------------------------------------------------------------
(* Universe *)

Users == {"u1", "u2"}

\* update.effective_user.first_name; the users are registered drivers
FirstName(u) == IF u = "u1" THEN "Ali" ELSE "Bob"

PoolPlates == <<"V1", "V2">>

\* texts a "Car Plate" cell can hold
PlateTexts == {"V1", "V2", "v1", " V2"}

Strip(p) == IF p = " V2" THEN "V2" ELSE p

Upper(p) == IF p = "v1" THEN "V1" ELSE p

\* str(plate).strip().upper()
Normalize(p) == Upper(Strip(p))

None == "None"

\* minutes of a day
Day == 1440

\* bot.py:42: the default of the environment variable
MAINTENANCE_INTERVAL_DAYS == 30

\* an empty cell of the Maintenance worksheet
Empty == -1

\* bot.py:755: the row text_handler writes when a car is added
NewMaintenance(plate) == [plate |-> plate, last |-> Empty, next |-> Empty]

\* the Maintenance rows of the cars of the pool
PoolMaintenance == [i \in DOMAIN PoolPlates |-> NewMaintenance(PoolPlates[i])]

\* bot.py:76: the headers of the Log worksheet
LogHeaders == <<"Timestamp", "Driver Name", "Car Plate", "Action">>

\* status_menu has not answered yet
NoView == <<>>

-----------------------------------------------------------------------------
(* Sequences *)

Range(s) == {s[i] : i \in DOMAIN s}

Front(s) == SubSeq(s, 1, Len(s) - 1)

Last(s) == s[Len(s)]

MaxOf(S) == CHOOSE m \in S : \A x \in S : x <= m

\* 1-based position of the first x in s
Pos(s, x) == CHOOSE i \in DOMAIN s : s[i] = x /\ \A j \in 1..(i - 1) : s[j] # x

\* row r goes after every row whose ts is not greater (keeps equal keys in order)
RECURSIVE InsertByTs(_, _)
InsertByTs(sorted, r) ==
  IF sorted = <<>> THEN <<r>>
  ELSE IF Last(sorted).ts <= r.ts THEN Append(sorted, r)
  ELSE Append(InsertByTs(Front(sorted), r), Last(sorted))

\* logs.sort(key=lambda x: x["Timestamp"]): list.sort is stable
RECURSIVE SortByTs(_)
SortByTs(logs) ==
  IF logs = <<>> THEN <<>>
  ELSE InsertByTs(SortByTs(Front(logs)), Last(logs))

-----------------------------------------------------------------------------
(* The dict {r["Car Plate"]: r["Action"] for r in logs} *)

\* its keys, in insertion order: the distinct plates by first occurrence
RECURSIVE DictKeys(_)
DictKeys(logs) ==
  IF logs = <<>> THEN <<>>
  ELSE LET k == DictKeys(Front(logs))
           p == Last(logs).plate
       IN  IF p \in Range(k) THEN k ELSE Append(k, p)

\* the row that supplies the value of key: the last row with that plate
LastRowOf(logs, key) ==
  LET idx == {i \in DOMAIN logs : logs[i].plate = key}
  IN  IF idx = {} THEN 0 ELSE MaxOf(idx)

\* last_action.get(key)
DictGet(logs, key) ==
  IF LastRowOf(logs, key) = 0 THEN None ELSE logs[LastRowOf(logs, key)].action

-----------------------------------------------------------------------------
(* take_car_menu / return_car_menu: the buttons a user is offered *)

\* bot.py:379 and bot.py:874: the keys whose value is "out" and for which the
\* row of logs at the key's position in the dict is a row of this user
UserCars(logs, user) ==
  LET keys == DictKeys(logs)
  IN  SelectSeq(keys, LAMBDA cp :
        DictGet(logs, cp) = "out" /\ logs[Pos(keys, cp)].name = user)

\* faulty variant: the dict keeps the first action seen for a plate
AvailableCarsFirstSeen(logs, all_cars) ==
  SelectSeq(all_cars, LAMBDA car :
    LET idx == {i \in DOMAIN logs : logs[i].plate = Normalize(car)}
    IN  idx = {} \/ logs[CHOOSE i \in idx : \A j \in idx : i <= j].action # "out")

\* bot.py:386: the cars whose normalized plate is not "out" in last_action
AvailableCars(logs, all_cars) ==
  SelectSeq(all_cars, LAMBDA car : DictGet(logs, Normalize(car)) # "out")

\* take_car_menu: what the user is shown for the sheet content sheet_log
TakeCarMenu(sheet_log, all_cars, user) ==
  LET logs == SortByTs(sheet_log)
  IN  IF UserCars(logs, user) # <<>>
        THEN [kind |-> "already", cars |-> <<>>]
      ELSE IF AvailableCars(logs, all_cars) = <<>>
        THEN [kind |-> "error", cars |-> <<>>]   \* `menu` is unbound at 385/388
      ELSE [kind |-> "list", cars |-> AvailableCars(logs, all_cars)]

\* return_car_menu: the plates offered for return (the log is not sorted here)
ReturnCarMenu(sheet_log, user) ==
  SelectSeq(DictKeys(sheet_log), LAMBDA cp :
    LET rec == sheet_log[LastRowOf(sheet_log, cp)]
    IN  rec.action = "out" /\ rec.name = user)

Prefixes(s) == {SubSeq(s, 1, k) : k \in 0..Len(s)}

\* the user has been able to open a take menu that offers "take|p"
TakeOffered(u, p) ==
  \E l \in Prefixes(ledger) :
    LET m == TakeCarMenu(l, cars, FirstName(u))
    IN  m.kind = "list" /\ p \in Range(m.cars)

\* the user has been able to open a return menu that offers "return|p"
ReturnOffered(u, p) ==
  \E l \in Prefixes(ledger) : p \in Range(ReturnCarMenu(l, FirstName(u)))

-----------------------------------------------------------------------------
(* on_car_action *)

\* faulty variant: the comparison is made with a text no row carries
InUseWrongLiteral(logs, plate) == DictGet(logs, Normalize(plate)) = "Out"

\* bot.py:879: the car is refused as in use
InUse(logs, plate) == DictGet(logs, Normalize(plate)) = "out"

\* bot.py:875: the user is refused as already having a car
AlreadyHas(logs, user) == UserCars(logs, user) # <<>>

\* bot.py:870-894: the reply of the handler body and the rows it appends, for
\* callback data action|plate from user at minute ts, when get_all_records
\* returned sheet_log
OnCarAction(sheet_log, ts, user, action, plate) ==
  IF action = "take" THEN
    LET logs == SortByTs(sheet_log)
    IN  IF AlreadyHas(logs, user)
          THEN [kind |-> "already", rows |-> <<>>]
        ELSE IF InUse(logs, plate)
          THEN [kind |-> "inuse", rows |-> <<>>]
        ELSE [kind |-> "took",
              rows |-> <<[ts |-> ts, name |-> user,
                          plate |-> plate, action |-> "out"]>>]
  ELSE [kind |-> "returned",
        rows |-> <<[ts |-> ts, name |-> user,
                    plate |-> plate, action |-> "in"]>>]

\* bot.py:895-909: the Maintenance rows after a release of plate at minute ts.
\* In the first record of the plate, Next Maintenance becomes Last
\* Maintenance, or ts when that cell is empty, plus the interval.
ReleaseMaintenance(records, plate, ts) ==
  LET idx == {i \in DOMAIN records : records[i].plate = plate}
  IN  IF idx = {} THEN records
      ELSE LET i == CHOOSE k \in idx : \A j \in idx : k <= j
               last_maintenance ==
                 IF records[i].last # Empty THEN records[i].last ELSE ts
           IN  [records EXCEPT
                  ![i].next = last_maintenance + MAINTENANCE_INTERVAL_DAYS * Day]

\* the Maintenance rows after on_car_action has answered with `kind`
MaintenanceAfter(kind, plate, ts) ==
  IF kind = "returned" THEN ReleaseMaintenance(maintenance, plate, ts)
  ELSE maintenance

NoQuery == [action |-> None, plate |-> None, seen |-> 0]

\* seen: how many rows the sheet had when the callback query arrived
NoReply == [user |-> None, action |-> None, plate |-> None, kind |-> None,
            seen |-> 0]

\* the callback data this user can send: a button some menu has offered
Offered(u, action, p) ==
  IF action = "take" THEN TakeOffered(u, p) ELSE ReturnOffered(u, p)

\* on_car_action from the callback query to its reply, run without another
\* handler in between (updates are dispatched one at a time)
CarAction(u, action, p) ==
  /\ Offered(u, action, p)
  /\ LET r == OnCarAction(ledger, now, FirstName(u), action, p)
     IN  /\ Len(ledger) + Len(r.rows) <= MaxLog
         /\ ledger' = ledger \o r.rows
         /\ reply' = [user |-> u, action |-> action, plate |-> p,
                      kind |-> r.kind, seen |-> Len(ledger)]
         /\ maintenance' = MaintenanceAfter(r.kind, p, now)
  /\ UNCHANGED <<now, header, cars, pending, view, accessVars, adminVars, retryVars>>

\* a minute passes
Tick ==
  /\ now < MaxTime
  /\ now' = now + 1
  /\ UNCHANGED <<header, maintenance, carVars, accessVars, adminVars, retryVars>>

\* bot.py:86-92, the settings written when the Settings worksheet is empty
DefaultSettings ==
  [k \in {"photo_upload_enabled", "snooze_1h", "snooze_2h", "snooze_24h",
          "weekly_summary"} |-> IF k = "weekly_summary" THEN "False" ELSE "True"]

Requesters == {"r1", "r2"}

NothingSent == [approved |-> 0, rejected |-> 0, announced |-> 0]

\* nobody has asked for access yet
InitAccess ==
  /\ drivers = <<>>
  /\ prompts = <<>>
  /\ snoozed = <<>>
  /\ sent = [u \in Requesters |-> NothingSent]
  /\ settings = DefaultSettings
  /\ queries = <<>>

\* the wrapper is not running
Idle == [kind |-> "idle", value |-> 0]

\* bot.py:153: the parameters of @retry_gsheet_operation()
InitRetry ==
  /\ max_attempts = 3
  /\ backoff_factor = 2
  /\ script = <<>>
  /\ attempt = 1
  /\ calls = 0
  /\ sleeps = <<>>
  /\ outcome = Idle

\* the people who administer the bot
Staff == {"a1", "a2", "a3"}

\* the name typed for a person when they are added
StaffName(u) == IF u = "a1" THEN "Amal" ELSE IF u = "a2" THEN "Badr" ELSE "Cyra"

\* the Admins worksheet holds one admin; nobody has a prompt open
InitAdmin ==
  /\ admins = <<[name |-> StaffName("a1"), id |-> "a1"]>>
  /\ awaiting = [u \in Staff |-> None]
  /\ buttons = {}

Init ==
  /\ now = 0
  /\ header = LogHeaders
  /\ ledger = <<>>
  /\ cars = PoolPlates
  /\ maintenance = PoolMaintenance
  /\ pending = [u \in Users |-> NoQuery]
  /\ reply = NoReply
  /\ view = NoView
  /\ InitAccess
  /\ InitRetry
  /\ InitAdmin

Next ==
  \/ \E u \in Users, a \in {"take", "return"}, p \in Range(cars) :
       CarAction(u, a, p)
  \/ Tick

Spec == Init /\ [][Next]_vars

-----------------------------------------------------------------------------
(* on_car_action with its suspension point: handlers of several callback    *)
(* queries in flight at once                                                *)

\* faulty variant: the sheet as it was when the callback query arrived, read
\* before the handler suspends
LogReadBeforeAwait(u) == SubSeq(ledger, 1, pending[u].seen)

\* sheet_log.get_all_records() at bot.py:871: the sheet as it is when the
\* handler resumes after query.answer()
LogRead(u) == ledger

\* a callback query "action|plate" of user u reaches on_car_action, which
\* suspends in `await query.answer()` (bot.py:860) before it reads anything
CarActionBegin(u, action, p) ==
  /\ pending[u] = NoQuery
  /\ Offered(u, action, p)
  /\ pending' = [pending EXCEPT
                   ![u] = [action |-> action, plate |-> p, seen |-> Len(ledger)]]
  /\ UNCHANGED <<now, header, maintenance, ledger, cars, reply, view, accessVars, adminVars, retryVars>>

\* the handler resumes: bot.py:862-883 read, validate and append, with no
\* await between the read and the append
CarActionFinish(u) ==
  /\ pending[u] # NoQuery
  /\ LET q == pending[u]
         r == OnCarAction(LogRead(u), now, FirstName(u), q.action, q.plate)
     IN  /\ Len(ledger) + Len(r.rows) <= MaxRaceLog
         /\ ledger' = ledger \o r.rows
         /\ reply' = [user |-> u, action |-> q.action, plate |-> q.plate,
                      kind |-> r.kind, seen |-> q.seen]
         /\ maintenance' = MaintenanceAfter(r.kind, q.plate, now)
  /\ pending' = [pending EXCEPT ![u] = NoQuery]
  /\ UNCHANGED <<now, header, cars, view, accessVars, adminVars, retryVars>>

NextRace ==
  \/ \E u \in Users, a \in {"take", "return"}, p \in Range(cars) :
       CarActionBegin(u, a, p)
  \/ \E u \in Users : CarActionFinish(u)

SpecRace == Init /\ [][NextRace]_vars

-----------------------------------------------------------------------------
(* status_menu over an arbitrary Log worksheet: rows in any storage order,  *)
(* plates as typed, rows with an unknown action or an empty plate           *)

\* faulty variant: the rows are folded in storage order
StorageOrder(sheet_log) == sheet_log

\* bot.py:323-324: the rows status_menu folds, in the order it folds them
StatusLogs(sheet_log) == SortByTs(sheet_log)

\* bot.py:328: the dict key of a row
NormalizedRows(logs) ==
  [i \in DOMAIN logs |-> [logs[i] EXCEPT !.plate = Normalize(@)]]

\* bot.py:330-331: car_driver[car_plate], the driver of the last "out" row
CarDriver(logs, key) ==
  LET idx == {i \in DOMAIN logs : logs[i].plate = key /\ logs[i].action = "out"}
  IN  IF idx = {} THEN "Unknown" ELSE logs[MaxOf(idx)].name

\* bot.py:334-338: one line per car of the Cars worksheet
StatusLines(sheet_log, all_cars) ==
  LET logs == NormalizedRows(StatusLogs(sheet_log))
  IN  [c \in DOMAIN all_cars |->
        LET normalized_car == Normalize(all_cars[c])
        IN  IF DictGet(logs, normalized_car) = "out"
              THEN [car |-> all_cars[c], label |-> "Out",
                    driver |-> CarDriver(logs, normalized_car)]
              ELSE [car |-> all_cars[c], label |-> "Available",
                    driver |-> None]]

SheetTimes == {1, 2}

\* rows as on_car_action writes them, with plates as a hand may type them
EntryRows ==
  {[ts |-> t, name |-> na[1], plate |-> p, action |-> na[2]] :
     t \in SheetTimes, p \in {"V1", "v1", "V2"},
     na \in {<<"Ali", "out">>, <<"Bob", "out">>, <<"Ali", "in">>}}

\* rows no command writes: an unknown action, an empty plate
MalformedRows ==
  { [ts |-> 2, name |-> "Ali", plate |-> "V1", action |-> "bogus"],
    [ts |-> 2, name |-> "Bob", plate |-> "", action |-> "out"] }

Malformed(r) == r.action \notin {"out", "in"} \/ Strip(r.plate) = ""

SheetRows == EntryRows \cup MalformedRows

SeqsUpTo(S, n) == UNION {[1..k -> S] : k \in 0..n}

\* the Log worksheet holds any rows in any order
InitSheet ==
  /\ now = 0
  /\ header = LogHeaders
  /\ ledger \in SeqsUpTo(SheetRows, MaxSheetLen)
  /\ cars = PoolPlates
  /\ maintenance = PoolMaintenance
  /\ pending = [u \in Users |-> NoQuery]
  /\ reply = NoReply
  /\ view = NoView
  /\ InitAccess
  /\ InitRetry
  /\ InitAdmin

\* status_menu, bot.py:321-339
StatusMenu ==
  /\ view' = StatusLines(ledger, cars)
  /\ UNCHANGED <<now, header, maintenance, ledger, cars, pending, reply, accessVars, adminVars, retryVars>>

NextSheet == StatusMenu

SpecSheet == InitSheet /\ [][NextSheet]_vars

-----------------------------------------------------------------------------
(* Access requests: start, handle_access_request, handle_snooze_time and    *)
(* check_snoozed_requests.  A prompt is a message in the admin chat; its    *)
(* state says what it shows: "request" the buttons approve / reject /       *)
(* snooze, "durations" the three snooze durations; "approved", "rejected",  *)
(* "snoozed", "disabled" and "error" are texts without buttons              *)
(* (edit_message_text without reply_markup drops them).                     *)

\* update.effective_user.full_name
FullName(u) == IF u = "r1" THEN "Rana" ELSE "Sam"

Hour == 60

\* the hours on the buttons of bot.py:551-553
SnoozeHours == {1, 2, 24}

\* bot.py:235: driver_ids
DriverIds == {drivers[i].id : i \in DOMAIN drivers}

\* bot.py:246-263: the access request, a message with the three decision
\* buttons
Prompt(u, name) ==
  [user |-> u, name |-> name, text |-> "Access Request", state |-> "request"]

\* bot.py:920-935: the reminder of a snoozed request, with the same buttons
Reminder(req) ==
  [user |-> req.user, name |-> req.name, text |-> "Reminder", state |-> "request"]

\* start, bot.py:232-266: a registered user gets a menu, anyone else has an
\* access request sent to the admin chat
Start(u) ==
  /\ u \notin DriverIds
  /\ Len(prompts) + Len(snoozed) < MaxPrompts
  /\ prompts' = Append(prompts, Prompt(u, FullName(u)))
  /\ UNCHANGED <<now, header, maintenance, carVars, retryVars, adminVars, drivers, snoozed, sent, settings, queries>>

\* the text handle_access_request puts on the message (bot.py:540, 547, 555)
DecisionText(action) ==
  IF action = "approve" THEN "approved"
  ELSE IF action = "reject" THEN "rejected" ELSE "durations"

\* query.edit_message_text raises BadRequest ("Message is not modified") when
\* the message already shows this text with this keyboard
NotModified(m, text) == prompts[m].state = text

\* handle_access_request, bot.py:531-558, for the callback data of button
\* `action` of message m.  blocked: send_message to the requester raises
\* (Forbidden: the requester has blocked the bot).  An exception raised after
\* append_row is caught at 556 and the message is edited to the error text.
AccessRequest(m, action, blocked) ==
  LET u == prompts[m].user
      edited == ~NotModified(m, DecisionText(action))
      raised == ~edited \/ (action # "snooze" /\ blocked)
  IN  /\ drivers' =
           IF action = "approve"
             THEN Append(drivers, [name |-> prompts[m].name, id |-> u])
             ELSE drivers
      /\ sent' =
           IF raised \/ action = "snooze" THEN sent
           ELSE IF action = "approve"
             THEN [sent EXCEPT ![u].approved = @ + 1, ![u].announced = @ + 1]
           ELSE [sent EXCEPT ![u].rejected = @ + 1]
      /\ prompts' = [prompts EXCEPT
                       ![m].state = IF raised THEN "error" ELSE DecisionText(action)]
      /\ UNCHANGED <<now, header, maintenance, carVars, retryVars, adminVars, snoozed, settings>>

\* the "approve" button of message m is pressed and handled; the requester
\* can be reached
Approve(m) ==
  /\ prompts[m].state = "request"
  /\ AccessRequest(m, "approve", FALSE)
  /\ UNCHANGED queries

\* the "reject" button of message m is pressed and handled
Reject(m) ==
  /\ prompts[m].state = "request"
  /\ AccessRequest(m, "reject", FALSE)
  /\ UNCHANGED queries

\* the "snooze" button of message m is pressed and handled
Snooze(m) ==
  /\ prompts[m].state = "request"
  /\ AccessRequest(m, "snooze", FALSE)
  /\ UNCHANGED queries

\* bot.py:568: f"snooze_{hours}h"
SnoozeKey(hours) ==
  IF hours = 1 THEN "snooze_1h"
  ELSE IF hours = 2 THEN "snooze_2h"
  ELSE IF hours = 24 THEN "snooze_24h" ELSE "snooze_3h"

\* settings.get(key, default) of the dict read from the Settings worksheet
SettingsGet(key, default) ==
  IF key \in DOMAIN settings THEN settings[key] ELSE default

\* bot.py:568-569: settings.get(f"snooze_{hours}h", "True") == "True"
SnoozeEnabled(hours) == SettingsGet(SnoozeKey(hours), "True") = "True"

\* handle_snooze_time, duration button of message m (bot.py:561-583)
SnoozeTime(m, hours) ==
  /\ prompts[m].state = "durations"
  /\ SnoozeEnabled(hours) => Len(prompts) + Len(snoozed) <= MaxPrompts
  /\ snoozed' =
       IF SnoozeEnabled(hours)
         THEN Append(snoozed, [user |-> prompts[m].user, name |-> prompts[m].name,
                               remind_time |-> now + hours * Hour, message |-> m])
         ELSE snoozed
  /\ prompts' = [prompts EXCEPT
                   ![m].state = IF SnoozeEnabled(hours) THEN "snoozed" ELSE "disabled"]
  /\ UNCHANGED <<now, header, maintenance, carVars, retryVars, adminVars, drivers, sent, settings, queries>>

\* faulty variant: a request is due only after its remind time
DueLate(req) == now > req.remind_time

\* faulty variant: every snoozed request counts as due
DueAtOnce(req) == TRUE

\* bot.py:919: the snoozed requests that are due
Due(req) == now >= req.remind_time

\* the first k due requests leave the list
RECURSIVE RemoveDue(_, _)
RemoveDue(reqs, k) ==
  IF reqs = <<>> \/ k = 0 THEN reqs
  ELSE IF Due(Head(reqs)) THEN RemoveDue(Tail(reqs), k - 1)
  ELSE <<Head(reqs)>> \o RemoveDue(Tail(reqs), k)

\* check_snoozed_requests, bot.py:915-937: the due requests are taken in list
\* order; each gets a reminder and is then removed from the list.  k is the
\* number of reminders sent: all the due requests, or fewer when send_message
\* raises, which ends the job and leaves the rest for the next run.
CheckSnoozedRequests(k) ==
  LET due == SelectSeq(snoozed, Due)
  IN  /\ k \in 1..Len(due)
      /\ prompts' = prompts \o [i \in 1..k |-> Reminder(due[i])]
      /\ snoozed' = RemoveDue(snoozed, k)
      /\ UNCHANGED <<now, header, maintenance, carVars, retryVars, adminVars, drivers, sent, settings, queries>>

\* an hour passes
TickHour ==
  /\ now < MaxHours * Hour
  /\ now' = now + Hour
  /\ UNCHANGED <<header, maintenance, carVars, accessVars, adminVars, retryVars>>

NextAccess ==
  \/ \E u \in Requesters : Start(u)
  \/ \E m \in DOMAIN prompts : Approve(m)
  \/ \E m \in DOMAIN prompts : Reject(m)
  \/ \E m \in DOMAIN prompts : Snooze(m)
  \/ \E m \in DOMAIN prompts, h \in SnoozeHours : SnoozeTime(m, h)
  \/ \E k \in 1..MaxPrompts : CheckSnoozedRequests(k)
  \/ TickHour

SpecAccess == Init /\ [][NextAccess]_vars

\* bot.py:1059: the scheduler runs check_snoozed_requests every minute
SpecAccessLive ==
  SpecAccess /\ WF_vars(\E k \in 1..MaxPrompts : CheckSnoozedRequests(k))

-----------------------------------------------------------------------------
(* Decisions in flight: several buttons of one access-request message are   *)
(* pressed before the first press has been handled.  Updates are processed  *)
(* one at a time in the order they arrive.                                  *)

Decisions == {"approve", "reject", "snooze"}

\* an admin presses a button the message shows; the callback query is queued
Press(m, action) ==
  /\ prompts[m].state = "request"
  /\ Len(queries) < MaxQueries
  /\ queries' = Append(queries, [message |-> m, action |-> action])
  /\ UNCHANGED <<now, header, maintenance, carVars, retryVars, adminVars, drivers, prompts, snoozed, sent, settings>>

\* handle_access_request runs for the oldest callback query
HandleAccessRequest(blocked) ==
  /\ queries # <<>>
  /\ AccessRequest(Head(queries).message, Head(queries).action, blocked)
  /\ queries' = Tail(queries)

NextDecide ==
  \/ \E u \in Requesters : Start(u)
  \/ \E m \in DOMAIN prompts, a \in Decisions : Press(m, a)
  \/ \E blocked \in BOOLEAN : HandleAccessRequest(blocked)

SpecDecide == Init /\ [][NextDecide]_vars

-----------------------------------------------------------------------------
(* retry_gsheet_operation, bot.py:153-173.  The wrapped function is given   *)
(* by script: its k-th call ends as script[k] says, "ok" (it returns),       *)
(* "api" (it raises gspread.exceptions.APIError) or "other" (it raises any   *)
(* other exception).  The value of a result or an error is the number of     *)
(* the call that produced it; 0 is None.                                     *)

Results == {"ok", "api", "other"}

BackoffFactors == {1, 2, 3}

Running == [kind |-> "running", value |-> 0]

\* faulty variant: the exponent counts the failures before this one
WaitFromOne(a) == backoff_factor ^ (a - 1)

\* bot.py:164: wait = backoff_factor ** attempt
Wait(a) == backoff_factor ^ a

\* faulty variant: the last attempt is taken to be one later
LastAttemptOffByOne(a) == a = max_attempts + 1

\* bot.py:161: if attempt == max_attempts
LastAttempt(a) == a = max_attempts

\* faulty variant: every exception is taken for a transient store error
TransientAny(result) == result # "ok"

\* bot.py:160: except gspread.exceptions.APIError
Transient(result) == result = "api"

\* bot.py:157-170, one pass of the while loop at attempt a, in which the
\* wrapped function ends with result: what the wrapper does next
Iteration(a, result) ==
  IF result = "ok"
    THEN [kind |-> "returned", attempt |-> a, slept |-> <<>>]
  ELSE IF Transient(result) THEN
    IF LastAttempt(a)
      THEN [kind |-> "raised", attempt |-> a, slept |-> <<>>]
      ELSE [kind |-> "running", attempt |-> a + 1, slept |-> <<Wait(a)>>]
  ELSE [kind |-> "raised", attempt |-> a, slept |-> <<>>]

\* the wrapper has been called with any parameters, around any function
InitShell ==
  /\ now = 0
  /\ header = LogHeaders
  /\ ledger = <<>>
  /\ cars = PoolPlates
  /\ maintenance = PoolMaintenance
  /\ pending = [u \in Users |-> NoQuery]
  /\ reply = NoReply
  /\ view = NoView
  /\ InitAccess
  /\ InitAdmin
  /\ max_attempts \in 0..MaxAttempts
  /\ backoff_factor \in BackoffFactors
  /\ script \in [1..MaxAttempts -> Results]
  /\ attempt = 1
  /\ calls = 0
  /\ sleeps = <<>>
  /\ outcome = Running

\* bot.py:157-170: the loop condition holds, the wrapped function is called
Invoke ==
  /\ outcome = Running
  /\ attempt <= max_attempts
  /\ LET it == Iteration(attempt, script[calls + 1])
     IN  /\ calls' = calls + 1
         /\ attempt' = it.attempt
         /\ sleeps' = sleeps \o it.slept
         /\ outcome' = IF it.kind = "running" THEN Running
                       ELSE [kind |-> it.kind, value |-> calls + 1]
  /\ UNCHANGED <<now, header, maintenance, carVars, accessVars, adminVars, max_attempts, backoff_factor, script>>

\* bot.py:171: the loop condition fails, the wrapper returns None
ReturnNone ==
  /\ outcome = Running
  /\ attempt > max_attempts
  /\ outcome' = [kind |-> "returned", value |-> 0]
  /\ UNCHANGED <<now, header, maintenance, carVars, accessVars, adminVars, max_attempts, backoff_factor, script,
                 attempt, calls, sleeps>>

NextShell == Invoke \/ ReturnNone

SpecShell == InitShell /\ [][NextShell]_vars

-----------------------------------------------------------------------------
(* on_car_action with store calls that fail: the handler as it is           *)
(* registered, wrapped by @retry_gsheet_operation().  fail is the number    *)
(* of the store call of one run of the handler that raises APIError, 0 if   *)
(* none does.                                                               *)

\* bot.py:862-909, the body of the try: the message last shown by the body,
\* the rows appended and whether a store call raised.  The store calls of a
\* take are get_all_records (871), then sheet_admins.get_all_records (876)
\* or append_row (882); those of a return are append_row (889),
\* sheet_maintenance.get_all_records (896) and update_cell (904).
OnCarActionBody(sheet_log, ts, user, action, plate, fail) ==
  LET row == [ts |-> ts, name |-> user, plate |-> plate,
              action |-> IF action = "take" THEN "out" ELSE "in"]
      logs == SortByTs(sheet_log)
  IN  IF action = "take" THEN
        IF fail = 1
          THEN [kind |-> None, rows |-> <<>>, raised |-> TRUE]
        ELSE IF AlreadyHas(logs, user)
          THEN [kind |-> IF fail = 2 THEN None ELSE "already",
                rows |-> <<>>, raised |-> fail = 2]
        ELSE IF InUse(logs, plate)
          THEN [kind |-> "inuse", rows |-> <<>>, raised |-> FALSE]
        ELSE IF fail = 2
          THEN [kind |-> None, rows |-> <<>>, raised |-> TRUE]
        ELSE [kind |-> "took", rows |-> <<row>>, raised |-> FALSE]
      ELSE
        IF fail = 1
          THEN [kind |-> None, rows |-> <<>>, raised |-> TRUE]
        ELSE [kind |-> "returned", rows |-> <<row>>, raised |-> fail \in {2, 3}]

\* bot.py:861-912: `except Exception` at 910 catches whatever the body raises,
\* the message becomes the error text and the handler returns
Handler(sheet_log, ts, user, action, plate, fail) ==
  LET b == OnCarActionBody(sheet_log, ts, user, action, plate, fail)
  IN  [kind |-> IF b.raised THEN "error" ELSE b.kind,
       rows |-> b.rows,
       result |-> "ok"]

\* the wrapper calls on_car_action for a callback query: for a new query at
\* attempt 1, for the query it is retrying at the attempt it has reached
CarActionStore(u, action, p, fail) ==
  /\ Offered(u, action, p)
  /\ outcome = Running =>
       (reply.user = u /\ reply.action = action /\ reply.plate = p)
  /\ LET retrying == outcome = Running
         h == Handler(ledger, now, FirstName(u), action, p, fail)
         it == Iteration(IF retrying THEN attempt ELSE 1, h.result)
     IN  /\ Len(ledger) + Len(h.rows) <= MaxStoreLog
         /\ ledger' = ledger \o h.rows
         /\ reply' = [user |-> u, action |-> action, plate |-> p,
                      kind |-> h.kind, seen |-> Len(ledger)]
         /\ maintenance' = MaintenanceAfter(h.kind, p, now)
         /\ calls' = IF retrying THEN calls + 1 ELSE 1
         /\ attempt' = it.attempt
         /\ sleeps' = (IF retrying THEN sleeps ELSE <<>>) \o it.slept
         /\ outcome' = IF it.kind = "running" THEN Running
                       ELSE [kind |-> it.kind, value |-> calls']
  /\ UNCHANGED <<now, header, cars, pending, view, accessVars, adminVars,
                 max_attempts, backoff_factor, script>>

StoreCalls == 1..3

NextStore ==
  \/ \E u \in Users, a \in {"take", "return"}, p \in Range(cars),
        fail \in {0} \cup StoreCalls : CarActionStore(u, a, p, fail)
  \/ Tick

SpecStore == Init /\ [][NextStore]_vars

-----------------------------------------------------------------------------
(* Administration: the Admins worksheet, the prompts that wait for a text   *)
(* and the removal buttons.  A prompt or a list of buttons is obtained      *)
(* through a handler decorated with @admin_only; the text and the button    *)
(* press that follow go to text_handler and to the callback handlers.  A    *)
(* user may have opened a menu several times, so a button that has been     *)
(* shown can be pressed at any later time.                                  *)

\* bot.py:179: admin_ids
AdminIds == {admins[i].id : i \in DOMAIN admins}

\* admin_only, bot.py:176-184: the wrapped handler runs for this user
IsAdmin(u) == u \in AdminIds

\* rows without the row at position i (delete_rows(row, row))
DeleteRow(rows, i) == SubSeq(rows, 1, i - 1) \o SubSeq(rows, i + 1, Len(rows))

\* the reply of a handler that is not on_car_action
Told(u, action, arg, kind) ==
  [user |-> u, action |-> action, plate |-> arg, kind |-> kind, seen |-> 0]

\* add_admin_prompt, bot.py:463-467
AddAdminPrompt(u) ==
  /\ IsAdmin(u)
  /\ awaiting' = [awaiting EXCEPT ![u] = "add_admin"]
  /\ UNCHANGED <<now, header, maintenance, carVars, accessVars, retryVars, admins, buttons>>

\* remove_admin_prompt, bot.py:469-483: one button per row of the sheet
RemoveAdminPrompt(u) ==
  /\ IsAdmin(u)
  /\ Len(admins) > 1
  /\ buttons' = buttons \cup {<<u, "remove_admin", id>> : id \in AdminIds}
  /\ UNCHANGED <<now, header, maintenance, carVars, accessVars, retryVars, admins, awaiting>>

\* faulty variant: the last admin is not protected
LastAdminUnprotected(rows) == Len(rows) < 1

\* bot.py:639: len(admins) <= 1
LastAdmin(rows) == Len(rows) <= 1

\* handle_admin_action, bot.py:631-651, for the button remove_admin|id
\* pressed by u
HandleAdminAction(u, id) ==
  /\ <<u, "remove_admin", id>> \in buttons
  /\ IF LastAdmin(admins)
       THEN /\ reply' = Told(u, "remove_admin", id, "last_admin")
            /\ admins' = admins
     ELSE IF id \notin AdminIds
       THEN /\ reply' = Told(u, "remove_admin", id, "not_found")
            /\ admins' = admins
     ELSE /\ reply' = Told(u, "remove_admin", id, "removed")
          /\ admins' = DeleteRow(admins, CHOOSE i \in DOMAIN admins :
                         /\ admins[i].id = id
                         /\ \A j \in 1..(i - 1) : admins[j].id # id)
  /\ UNCHANGED <<now, header, maintenance, ledger, cars, pending, view, accessVars, retryVars,
                 awaiting, buttons>>

\* the texts a user may send for a prompt: a plate for add_car, a name and
\* an id for add_driver and add_admin
Texts(action) ==
  IF action = "add_car" THEN PlateTexts
  ELSE IF action = "add_driver"
    THEN {<<FirstName(x), x>> : x \in Users}
  ELSE {<<StaffName(x), x>> : x \in Staff}

\* faulty variant: the text is compared as it was typed
PlateExistsAsTyped(pool, text) == text \in Range(pool)

\* bot.py:750-752: the normalized text is the normalized form of a stored plate
PlateExists(pool, text) ==
  Normalize(text) \in {Normalize(pool[i]) : i \in DOMAIN pool}

\* bot.py:751-755: the pool after the text of an add_car prompt
AddCar(pool, text) ==
  IF PlateExists(pool, text) THEN pool ELSE Append(pool, Normalize(text))

\* bot.py:307: the buttons of driver_list_menu, shown to an admin
DriverButtons(u, rows) ==
  IF IsAdmin(u)
    THEN {<<u, "remove_driver", rows[i].name>> : i \in DOMAIN rows}
         \cup {<<u, "add_driver", None>>}
    ELSE {}

\* text_handler, bot.py:745-766: a text of u who has a prompt open
TextHandler(u, text) ==
  /\ awaiting[u] # None
  /\ text \in Texts(awaiting[u])
  /\ awaiting' = [awaiting EXCEPT ![u] = None]
  /\ IF awaiting[u] = "add_car"
       THEN /\ reply' = Told(u, "add_car", text,
                           IF PlateExists(cars, text) THEN "exists" ELSE "added")
            /\ cars' = AddCar(cars, text)
            /\ maintenance' =
                 IF PlateExists(cars, text) THEN maintenance
                 ELSE Append(maintenance, NewMaintenance(Normalize(text)))
            /\ Len(maintenance') <= MaxMaintenance
            /\ Len(cars') <= MaxCars
            /\ UNCHANGED <<drivers, admins, buttons>>
     ELSE IF awaiting[u] = "add_driver"
       THEN /\ reply' = Told(u, "add_driver", None, "added")
            /\ maintenance' = maintenance
            /\ Len(drivers) < MaxDrivers
            /\ drivers' = Append(drivers, [name |-> text[1], id |-> text[2]])
            /\ buttons' = buttons \cup DriverButtons(u, drivers')
            /\ UNCHANGED <<cars, admins>>
     ELSE /\ reply' = Told(u, "add_admin", None, "added")
          /\ maintenance' = maintenance
          /\ Len(admins) < MaxAdmins
          /\ admins' = Append(admins, [name |-> text[1], id |-> text[2]])
          /\ UNCHANGED <<cars, drivers, buttons>>
  /\ UNCHANGED <<now, header, ledger, pending, view, prompts, snoozed, sent, settings,
                 queries, retryVars>>

NextAdmin ==
  \/ \E u \in Staff : AddAdminPrompt(u)
  \/ \E u \in Staff : RemoveAdminPrompt(u)
  \/ \E u \in Staff, id \in Staff : HandleAdminAction(u, id)
  \/ \E u \in Staff, text \in Texts("add_admin") : TextHandler(u, text)

SpecAdmin == Init /\ [][NextAdmin]_vars

-----------------------------------------------------------------------------
(* The vehicle pool: add_car_prompt with text_handler, remove_car_prompt    *)
(* with handle_remove_car_action, over a Log worksheet of any content       *)

\* rows as on_car_action writes them for the plates of the pool
PoolRows ==
  {[ts |-> t, name |-> na[1], plate |-> p, action |-> na[2]] :
     t \in SheetTimes, p \in Range(PoolPlates),
     na \in {<<"Ali", "out">>, <<"Bob", "out">>, <<"Ali", "in">>}}

\* the Log worksheet holds any rows in any order
InitPool ==
  /\ now = 0
  /\ header = LogHeaders
  /\ ledger \in SeqsUpTo(PoolRows, MaxPoolLog)
  /\ cars = PoolPlates
  /\ maintenance = PoolMaintenance
  /\ pending = [u \in Users |-> NoQuery]
  /\ reply = NoReply
  /\ view = NoView
  /\ InitAccess
  /\ InitRetry
  /\ InitAdmin

\* add_car_prompt, bot.py:272-275
AddCarPrompt(u) ==
  /\ IsAdmin(u)
  /\ awaiting' = [awaiting EXCEPT ![u] = "add_car"]
  /\ UNCHANGED <<now, header, maintenance, carVars, accessVars, retryVars, admins, buttons>>

\* remove_car_prompt, bot.py:277-294: a button for each car of the pool that
\* the dict of the unsorted log does not give as "out"
RemoveCarPrompt(u) ==
  /\ IsAdmin(u)
  /\ cars # <<>>
  /\ buttons' = buttons \cup
       {<<u, "remove_car", cars[i]>> :
          i \in {j \in DOMAIN cars : DictGet(ledger, cars[j]) # "out"}}
  /\ UNCHANGED <<now, header, maintenance, carVars, accessVars, retryVars, admins, awaiting>>

\* handle_remove_car_action, bot.py:607-629, for the button remove_car|car
\* pressed by u
HandleRemoveCarAction(u, car) ==
  /\ <<u, "remove_car", car>> \in buttons
  /\ IF DictGet(ledger, car) = "out"
       THEN /\ reply' = Told(u, "remove_car", car, "in_use")
            /\ cars' = cars
     ELSE IF car \notin Range(cars)
       THEN /\ reply' = Told(u, "remove_car", car, "not_found")
            /\ cars' = cars
     ELSE /\ reply' = Told(u, "remove_car", car, "removed")
          /\ cars' = DeleteRow(cars, Pos(cars, car))
  /\ UNCHANGED <<now, header, maintenance, ledger, pending, view, accessVars, retryVars, adminVars>>

NextPool ==
  \/ \E u \in Staff : AddCarPrompt(u)
  \/ \E u \in Staff, text \in Texts("add_car") : TextHandler(u, text)
  \/ \E u \in Staff : RemoveCarPrompt(u)
  \/ \E u \in Staff, car \in PlateTexts : HandleRemoveCarAction(u, car)

SpecPool == InitPool /\ [][NextPool]_vars

-----------------------------------------------------------------------------
(* The menus of a registered user: take_car_menu and return_car_menu behind *)
(* @admin_or_driver, over a Log worksheet of any content                    *)

\* admin_or_driver, bot.py:187-201: the wrapped handler runs for this user
Registered(u) == u \in AdminIds \/ u \in DriverIds

\* the rows of the Drivers worksheet once the users have been approved
DriverRows == <<[name |-> FirstName("u1"), id |-> "u1"],
                [name |-> FirstName("u2"), id |-> "u2"]>>

\* the Log worksheet holds any rows in any order; the users are drivers
InitMenu ==
  /\ now = 0
  /\ header = LogHeaders
  /\ ledger \in SeqsUpTo(PoolRows, MaxPoolLog)
  /\ cars = PoolPlates
  /\ maintenance = PoolMaintenance
  /\ pending = [u \in Users |-> NoQuery]
  /\ reply = NoReply
  /\ view = NoView
  /\ drivers = DriverRows
  /\ prompts = <<>>
  /\ snoozed = <<>>
  /\ sent = [u \in Requesters |-> NothingSent]
  /\ settings = DefaultSettings
  /\ queries = <<>>
  /\ InitRetry
  /\ InitAdmin

\* the message a menu handler has sent to u
Menu(u, menu, kind, plates) ==
  <<[user |-> u, menu |-> menu, kind |-> kind, cars |-> plates]>>

\* take_car_menu, bot.py:370-393, opened by u: the message and its buttons
TakeCarMenuOpen(u) ==
  /\ Registered(u)
  /\ LET m == TakeCarMenu(ledger, cars, FirstName(u))
     IN  /\ view' = Menu(u, "take", m.kind, m.cars)
         /\ buttons' = buttons \cup {<<u, "take", p>> : p \in Range(m.cars)}
  /\ UNCHANGED <<now, header, maintenance, ledger, cars, pending, reply, accessVars, retryVars,
                 admins, awaiting>>

\* return_car_menu, bot.py:395-411, opened by u: the message and its buttons
ReturnCarMenuOpen(u) ==
  /\ Registered(u)
  /\ LET user_cars == ReturnCarMenu(ledger, FirstName(u))
     IN  /\ view' = Menu(u, "return",
                         IF user_cars = <<>> THEN "none" ELSE "list", user_cars)
         /\ buttons' = buttons \cup {<<u, "return", p>> : p \in Range(user_cars)}
  /\ UNCHANGED <<now, header, maintenance, ledger, cars, pending, reply, accessVars, retryVars,
                 admins, awaiting>>

NextMenu ==
  \/ \E u \in Users : TakeCarMenuOpen(u)
  \/ \E u \in Users : ReturnCarMenuOpen(u)

SpecMenu == InitMenu /\ [][NextMenu]_vars

-----------------------------------------------------------------------------
(* Drivers are removed and added while users hold menus: driver_list_menu,  *)
(* handle_driver_action and on_car_action for the button that is pressed    *)

\* the users are drivers, nothing is logged yet
InitAuth ==
  /\ now = 0
  /\ header = LogHeaders
  /\ ledger = <<>>
  /\ cars = PoolPlates
  /\ maintenance = PoolMaintenance
  /\ pending = [u \in Users |-> NoQuery]
  /\ reply = NoReply
  /\ view = NoView
  /\ drivers = DriverRows
  /\ prompts = <<>>
  /\ snoozed = <<>>
  /\ sent = [u \in Requesters |-> NothingSent]
  /\ settings = DefaultSettings
  /\ queries = <<>>
  /\ InitRetry
  /\ InitAdmin

\* driver_list_menu, bot.py:301-317, opened by u
DriverListMenu(u) ==
  /\ IsAdmin(u)
  /\ buttons' = buttons \cup DriverButtons(u, drivers)
  /\ UNCHANGED <<now, header, maintenance, carVars, accessVars, retryVars, admins, awaiting>>

\* bot.py:593: vals, the Name column
DriverNames == [i \in DOMAIN drivers |-> drivers[i].name]

\* handle_driver_action, bot.py:585-605, for the button remove_driver|name
\* or add_driver pressed by u
HandleDriverAction(u, action, name) ==
  /\ action \in {"remove_driver", "add_driver"}
  /\ <<u, action, name>> \in buttons
  /\ IF action = "add_driver"
       THEN /\ awaiting' = [awaiting EXCEPT ![u] = "add_driver"]
            /\ reply' = Told(u, action, name, "prompt")
            /\ drivers' = drivers
     ELSE IF name \notin Range(DriverNames)
       THEN /\ reply' = Told(u, action, name, "not_found")
            /\ UNCHANGED <<drivers, awaiting>>
     ELSE /\ reply' = Told(u, action, name, "removed")
          /\ drivers' = DeleteRow(drivers, Pos(DriverNames, name))
          /\ awaiting' = awaiting
  /\ UNCHANGED <<now, header, maintenance, ledger, cars, pending, view, prompts, snoozed, sent,
                 settings, queries, retryVars, admins, buttons>>

\* on_car_action, bot.py:857-894, for the button action|p pressed by u
CarActionPressed(u, action, p) ==
  /\ action \in {"take", "return"}
  /\ <<u, action, p>> \in buttons
  /\ LET r == OnCarAction(ledger, now, FirstName(u), action, p)
     IN  /\ Len(ledger) + Len(r.rows) <= MaxAuthLog
         /\ ledger' = ledger \o r.rows
         /\ reply' = [user |-> u, action |-> action, plate |-> p,
                      kind |-> r.kind, seen |-> Len(ledger)]
         /\ maintenance' = MaintenanceAfter(r.kind, p, now)
  /\ UNCHANGED <<now, header, cars, pending, view, accessVars, adminVars, retryVars>>

NextAuth ==
  \/ \E u \in Users : TakeCarMenuOpen(u)
  \/ \E u \in Users : ReturnCarMenuOpen(u)
  \/ \E u \in Staff : DriverListMenu(u)
  \/ \E u \in Staff, action \in {"remove_driver", "add_driver"},
        name \in {FirstName(x) : x \in Users} \cup {None} :
       HandleDriverAction(u, action, name)
  \/ \E u \in Staff, text \in Texts("add_driver") : TextHandler(u, text)
  \/ \E u \in Users, action \in {"take", "return"}, p \in PlateTexts :
       CarActionPressed(u, action, p)

SpecAuth == InitAuth /\ [][NextAuth]_vars

-----------------------------------------------------------------------------
(* Two drivers with the same first name *)

\* u3 is a second user whose first_name is Bob
AllUsers == Users \cup {"u3"}

\* the three users are drivers, nothing is logged yet
InitNames ==
  /\ now = 0
  /\ header = LogHeaders
  /\ ledger = <<>>
  /\ cars = PoolPlates
  /\ maintenance = PoolMaintenance
  /\ pending = [u \in Users |-> NoQuery]
  /\ reply = NoReply
  /\ view = NoView
  /\ drivers = Append(DriverRows, [name |-> FirstName("u3"), id |-> "u3"])
  /\ prompts = <<>>
  /\ snoozed = <<>>
  /\ sent = [u \in Requesters |-> NothingSent]
  /\ settings = DefaultSettings
  /\ queries = <<>>
  /\ InitRetry
  /\ InitAdmin

NextNames ==
  \/ \E u \in AllUsers : TakeCarMenuOpen(u)
  \/ \E u \in AllUsers : ReturnCarMenuOpen(u)
  \/ \E u \in AllUsers, action \in {"take", "return"}, p \in PlateTexts :
       CarActionPressed(u, action, p)

SpecNames == InitNames /\ [][NextNames]_vars

\* the driver list is edited while two drivers have the same name
NextDrivers ==
  \/ \E u \in Staff : DriverListMenu(u)
  \/ \E u \in Staff, action \in {"remove_driver", "add_driver"},
        name \in {FirstName(x) : x \in AllUsers} \cup {None} :
       HandleDriverAction(u, action, name)
  \/ \E u \in Staff, text \in Texts("add_driver") : TextHandler(u, text)

SpecDrivers == InitNames /\ [][NextDrivers]_vars

-----------------------------------------------------------------------------
(* The process is started again: the module-level initialization runs over  *)
(* the worksheets as they are                                               *)

\* what row 1 of the Log worksheet can be: the headers the program wrote, or
\* these with a column added in the spreadsheet
HeaderRows == {LogHeaders, Append(LogHeaders, "Notes")}

\* commands are logged under either row 1
InitRestart ==
  /\ now = 0
  /\ header \in HeaderRows
  /\ ledger = <<>>
  /\ cars = PoolPlates
  /\ maintenance = PoolMaintenance
  /\ pending = [u \in Users |-> NoQuery]
  /\ reply = NoReply
  /\ view = NoView
  /\ InitAccess
  /\ InitRetry
  /\ InitAdmin

\* initialize_worksheet, bot.py:61-69, for a worksheet that exists and has
\* the rows data below row 1 first_row: the rows it leaves
InitializeWorksheet(first_row, data, headers) ==
  IF first_row # headers THEN <<>> ELSE data

\* bot.py:55-96 run again; user_data and bot_data start empty
Restart ==
  /\ ledger' = InitializeWorksheet(header, ledger, LogHeaders)
  /\ header' = LogHeaders
  /\ awaiting' = [u \in Staff |-> None]
  /\ snoozed' = <<>>
  /\ pending' = [u \in Users |-> NoQuery]
  /\ UNCHANGED <<now, maintenance, cars, reply, view, drivers, prompts, sent,
                 settings,
                 queries, retryVars, admins, buttons>>

NextRestart ==
  \/ \E u \in Users, a \in {"take", "return"}, p \in Range(cars) :
       CarAction(u, a, p)
  \/ Tick
  \/ Restart

SpecRestart == InitRestart /\ [][NextRestart]_vars

-----------------------------------------------------------------------------
(* Settings: settings_menu, handle_settings_action, and handle_snooze_time  *)
(* reading them.  The callback data of a query is what the client sends:    *)
(* the hours of snooze_time need not be those of a button.                  *)

\* the hours the data snooze_time|id|name|hours may carry
CarriedHours == SnoozeHours \cup {3}

\* the Value column holds any of the two texts for each setting
InitSettings ==
  /\ now = 0
  /\ header = LogHeaders
  /\ ledger = <<>>
  /\ cars = PoolPlates
  /\ maintenance = PoolMaintenance
  /\ pending = [u \in Users |-> NoQuery]
  /\ reply = NoReply
  /\ view = NoView
  /\ drivers = <<>>
  /\ prompts = <<>>
  /\ snoozed = <<>>
  /\ sent = [u \in Requesters |-> NothingSent]
  /\ settings \in [DOMAIN DefaultSettings -> {"True", "False"}]
  /\ queries = <<>>
  /\ InitRetry
  /\ InitAdmin

\* the rows of the Settings worksheet below the header, in the order of
\* bot.py:86-92
SettingKeys ==
  <<"photo_upload_enabled", "snooze_1h", "snooze_2h", "snooze_24h",
    "weekly_summary">>

\* sheet_settings.get_all_records(): one dict per row, keyed by the headers
\* of bot.py:81
SettingsRecords ==
  [i \in DOMAIN SettingKeys |->
     [Setting |-> SettingKeys[i], Value |-> settings[SettingKeys[i]]]]

\* settings_menu, bot.py:496-511, opened by u
SettingsMenu(u) ==
  /\ IsAdmin(u)
  /\ buttons' = buttons \cup
       {<<u, a, None>> : a \in {"toggle_photo_upload", "toggle_weekly_summary",
                                "set_snooze"}}
  /\ UNCHANGED <<now, header, maintenance, carVars, accessVars, retryVars, admins, awaiting>>

\* the setting a toggle button stands for, and the default of its get
\* (bot.py:701, 709, 733-734)
SettingOf(action) ==
  IF action = "toggle_photo_upload" THEN <<"photo_upload_enabled", "True">>
  ELSE IF action = "toggle_weekly_summary" THEN <<"weekly_summary", "False">>
  ELSE IF action = "toggle_snooze_1h" THEN <<"snooze_1h", "True">>
  ELSE IF action = "toggle_snooze_2h" THEN <<"snooze_2h", "True">>
  ELSE <<"snooze_24h", "True">>

\* sheet_settings.update_cell(row, 2, value)
UpdateCell(row, value) == [settings EXCEPT ![SettingKeys[row - 1]] = value]

\* bot.py:701-706 (709-714, 734-739): the new value is computed, then the
\* row number is looked up as record["row"] in the first record of the
\* setting; a record has no such key, and the KeyError ends the try block
ToggleSetting(key, default) ==
  LET new_value == IF SettingsGet(key, default) = "True" THEN "False" ELSE "True"
      record == SelectSeq(SettingsRecords, LAMBDA r : r.Setting = key)[1]
  IN  IF "row" \notin DOMAIN record
        THEN [raised |-> TRUE, settings |-> settings]
        ELSE [raised |-> FALSE, settings |-> UpdateCell(record["row"], new_value)]

ToggleActions ==
  {"toggle_photo_upload", "toggle_weekly_summary", "toggle_snooze_1h",
   "toggle_snooze_2h", "toggle_snooze_24h"}

\* handle_settings_action, bot.py:693-743, for the button `action` pressed
\* by u
HandleSettingsAction(u, action) ==
  /\ <<u, action, None>> \in buttons
  /\ IF action = "set_snooze"
       THEN /\ buttons' = buttons \cup
                 {<<u, a, None>> : a \in {"toggle_snooze_1h", "toggle_snooze_2h",
                                          "toggle_snooze_24h"}}
            /\ reply' = Told(u, action, None, "menu")
            /\ settings' = settings
       ELSE LET t == ToggleSetting(SettingOf(action)[1], SettingOf(action)[2])
            IN  /\ settings' = t.settings
                /\ reply' = Told(u, action, None,
                                 IF t.raised THEN "error" ELSE "toggled")
                /\ buttons' = buttons
  /\ UNCHANGED <<now, header, maintenance, ledger, cars, pending, view, drivers, prompts,
                 snoozed, sent, queries, retryVars, admins, awaiting>>

NextSettings ==
  \/ \E u \in Staff : SettingsMenu(u)
  \/ \E u \in Staff, action \in ToggleActions \cup {"set_snooze"} :
       HandleSettingsAction(u, action)
  \/ \E u \in Requesters : Start(u)
  \/ \E m \in DOMAIN prompts : Snooze(m)
  \/ \E m \in DOMAIN prompts, h \in CarriedHours : SnoozeTime(m, h)

SpecSettings == InitSettings /\ [][NextSettings]_vars

-----------------------------------------------------------------------------
(* Maintenance: the release branch of on_car_action writes Next             *)
(* Maintenance, check_maintenance_reminders reports the cars that are due   *)

\* the clock goes in steps of half the default interval
MaintStep == 15 * Day

\* time passes
TickStep ==
  /\ now < MaxMaintSteps * MaintStep
  /\ now' = now + MaintStep
  /\ UNCHANGED <<header, maintenance, carVars, accessVars, adminVars, retryVars>>

\* bot.py:1004-1007: the record has a Next Maintenance that has come
MaintenanceDue(record) == record.next # Empty /\ now >= record.next

\* maintenance_records.index(record): the first record equal to record k
IndexOf(records, k) == CHOOSE j \in DOMAIN records :
  records[j] = records[k] /\ \A i \in 1..(j - 1) : records[i] # records[k]

\* check_maintenance_reminders, bot.py:999-1024: every record that is due is
\* reported to the admin chat; Last Maintenance becomes now and Next
\* Maintenance now plus the interval, in the row the record is found at
CheckMaintenanceReminders ==
  /\ maintenance' =
       [i \in DOMAIN maintenance |->
          IF \E k \in DOMAIN maintenance :
               MaintenanceDue(maintenance[k]) /\ IndexOf(maintenance, k) = i
            THEN [maintenance[i] EXCEPT
                    !.last = now,
                    !.next = now + MAINTENANCE_INTERVAL_DAYS * Day]
            ELSE maintenance[i]]
  /\ UNCHANGED <<now, header, carVars, accessVars, adminVars, retryVars>>

NextMaintenance ==
  \/ \E u \in Users, a \in {"take", "return"}, p \in Range(cars) :
       CarAction(u, a, p)
  \/ TickStep
  \/ CheckMaintenanceReminders

SpecMaintenance == Init /\ [][NextMaintenance]_vars

-----------------------------------------------------------------------------
(* Possession as the data model defines it: the state of a vehicle is the   *)
(* action of its most recent entry by timestamp, entries of one minute in   *)
(* storage order                                                            *)

\* row i is older than row j
Older(logs, i, j) ==
  logs[i].ts < logs[j].ts \/ (logs[i].ts = logs[j].ts /\ i < j)

EntriesOf(logs, v) == {i \in DOMAIN logs : Normalize(logs[i].plate) = v}

\* index of the most recent entry of vehicle v, 0 if it has none
MostRecent(logs, v) ==
  IF EntriesOf(logs, v) = {} THEN 0
  ELSE CHOOSE i \in EntriesOf(logs, v) :
         \A j \in EntriesOf(logs, v) \ {i} : Older(logs, j, i)

Held(logs, v) ==
  MostRecent(logs, v) # 0 /\ logs[MostRecent(logs, v)].action = "out"

Holder(logs, v) ==
  IF Held(logs, v) THEN logs[MostRecent(logs, v)].name ELSE None

Vehicles == {Normalize(p) : p \in PlateTexts}

HeldBy(logs, name) == {v \in Vehicles : Holder(logs, v) = name}

\* this step is on_car_action answering a command `action`
Answered(action) ==
  /\ reply'.action = action
  /\ <<ledger, reply>>' # <<ledger, reply>>

-----------------------------------------------------------------------------
(* Claims *)

\* C1: after any sequence of take and return commands processed one at a
\* time, no actor is the projected holder of more than one vehicle.
C1_OneVehiclePerActor ==
  \A u \in Users : Cardinality(HeldBy(ledger, FirstName(u))) <= 1

C3_ReleaseByNonHolderRefused ==
  [][ (Answered("return") /\ Holder(ledger, reply'.plate) # FirstName(reply'.user))
        => (ledger' = ledger /\ reply'.kind = "notholder") ]_vars

\* C4: an acquire of a held vehicle by an actor holding nothing fails with
\* VehicleUnavailable and appends nothing.
C4_HeldVehicleUnavailable ==
  [][ ( /\ Answered("take")
        /\ Held(ledger, reply'.plate)
        /\ HeldBy(ledger, FirstName(reply'.user)) = {} )
        => (ledger' = ledger /\ reply'.kind = "inuse") ]_vars

\* the handler of u's pending take of plate p resumes in this step
Resumes(u) ==
  /\ pending[u].action = "take"
  /\ pending'[u] = NoQuery

WellFormed(logs) == \A i \in DOMAIN logs : ~Malformed(logs[i])

\* the same rows in another storage order
Reorderings(logs) ==
  {[i \in DOMAIN logs |-> logs[f[i]]] : f \in Permutations(DOMAIN logs)}

\* no two entries of one vehicle carry the same timestamp
DistinctTimes(logs) ==
  \A i, j \in DOMAIN logs :
    (i # j /\ Normalize(logs[i].plate) = Normalize(logs[j].plate))
      => logs[i].ts # logs[j].ts

\* the projection of on_car_action (bot.py:871-873) and of status_menu agree
\* on two storage orders of the sheet
SameProjection(a, b) ==
  /\ StatusLines(a, cars) = StatusLines(b, cars)
  /\ \A p \in PlateTexts : DictGet(SortByTs(a), p) = DictGet(SortByTs(b), p)

\* C6: for every ledger content the status projection shows, for every
\* vehicle, the action of its most recent entry by timestamp with that
\* entry's driver as holder, and available when it has no entry.
C6_StatusIsMostRecentEntry ==
  (view # NoView /\ WellFormed(ledger)) =>
    \A c \in DOMAIN cars :
      LET v == Normalize(cars[c])
      IN  IF Held(ledger, v)
            THEN view[c].label = "Out" /\ view[c].driver = Holder(ledger, v)
            ELSE view[c].label = "Available"

\* C6 witness: the most recent entry of V1 is stored first and typed in lower
\* case; the status shows V1 out with its driver, and V2, without entry,
\* available.
C6_Witness ==
  /\ view # NoView
  /\ Len(ledger) = 2
  /\ ledger[1] = [ts |-> 2, name |-> "Bob", plate |-> "v1", action |-> "out"]
  /\ ledger[2] = [ts |-> 1, name |-> "Ali", plate |-> "V1", action |-> "in"]
  /\ view[1] = [car |-> "V1", label |-> "Out", driver |-> "Bob"]
  /\ view[2].label = "Available"

\* C7 as stated: the projection of any permutation of the same entries, each
\* keeping its timestamp, is the same.
C7_AnyPermutation ==
  (view # NoView /\ WellFormed(ledger)) =>
    \A l \in Reorderings(ledger) : SameProjection(l, ledger)

\* C7 amended: the projection of any permutation of the same entries is the
\* same provided no two entries of one vehicle carry the same timestamp.
C7_PermutationDistinctTimes ==
  (view # NoView /\ WellFormed(ledger) /\ DistinctTimes(ledger)) =>
    \A l \in Reorderings(ledger) : SameProjection(l, ledger)

\* C7 witness: three entries stored against their timestamps, two of them of
\* one vehicle at different minutes, and the status computed from them.
C7_Witness ==
  /\ view # NoView
  /\ Len(ledger) = 3
  /\ WellFormed(ledger) /\ DistinctTimes(ledger)
  /\ ledger[1].ts > ledger[3].ts
  /\ ledger[1].plate = "V1" /\ ledger[3].plate = "V1"
  /\ ledger[1].action = "out" /\ ledger[3].action = "in"
  /\ view[1].label = "Out"

\* C8: a row with an unknown action or an empty plate is excluded from the
\* fold: the projection is the one of the sheet without that row.
C8_MalformedRowsSkipped ==
  view # NoView =>
    view = StatusLines(SelectSeq(ledger, LAMBDA r : ~Malformed(r)), cars)

C10_OneActorOneNotification ==
  \A u \in Requesters :
    /\ Cardinality({i \in DOMAIN drivers : drivers[i].id = u}) <= 1
    /\ sent[u].approved <= 1

\* the oldest callback query is handled in this step
Handled == queries # <<>> /\ queries' = Tail(queries)

\* the oldest callback query is a decision on a message that already shows
\* the opposite decision
AlreadyResolved ==
  LET q == Head(queries)
  IN  \/ q.action = "approve" /\ prompts[q.message].state = "rejected"
      \/ q.action = "reject" /\ prompts[q.message].state = "approved"

\* C11: when approve and reject are both issued on one pending request, the
\* decision handled second fails: it creates no Actor, sends the requester no
\* accept or reject notification and changes no state.
C11_SecondDecisionFails ==
  [][ (Handled /\ AlreadyResolved)
        => (drivers' = drivers /\ sent' = sent /\ prompts' = prompts) ]_vars

\* a request of requester u has been approved or rejected
Decided(u) == sent[u].approved + sent[u].rejected > 0

PromptsOf(u) == {m \in DOMAIN prompts : prompts[m].user = u}

ActorsOf(u) == {i \in DOMAIN drivers : drivers[i].id = u}

\* C12: once a request of a requester has been approved or rejected, no admin
\* decision, snooze wake-up or renewed contact changes the outcome or emits
\* another admission prompt for the requester.
C12_DecisionIsTerminal ==
  [][ \A u \in Requesters : Decided(u) =>
        /\ sent'[u] = sent[u]
        /\ Cardinality(ActorsOf(u))' = Cardinality(ActorsOf(u))
        /\ Cardinality(PromptsOf(u))' = Cardinality(PromptsOf(u)) ]_vars

RemindersOf(u) ==
  {m \in DOMAIN prompts : prompts[m].user = u /\ prompts[m].text = "Reminder"}

SnoozesOf(u) ==
  {m \in DOMAIN prompts : prompts[m].user = u /\ prompts[m].state = "snoozed"}

WaitingOf(u) == {i \in DOMAIN snoozed : snoozed[i].user = u}

\* C13: a snoozed request is re-emitted once and never early.  A snoozed
\* entry leaves the list only at now >= remind_time, a reminder is emitted
\* only for an entry that leaves in the same step, and every snooze of a
\* requester is either still waiting or has been re-emitted exactly once.
C13_WakesOnceWhenDue ==
  /\ [](\A u \in Requesters :
          Cardinality(RemindersOf(u)) + Cardinality(WaitingOf(u))
            = Cardinality(SnoozesOf(u)))
  /\ [][ /\ \A i \in DOMAIN snoozed :
              snoozed[i] \notin Range(snoozed') => now >= snoozed[i].remind_time
         /\ \A u \in Requesters :
              Cardinality(RemindersOf(u))' > Cardinality(RemindersOf(u))
                => ( Cardinality(RemindersOf(u))' - Cardinality(RemindersOf(u))
                       = Cardinality(WaitingOf(u)) - Cardinality(WaitingOf(u))' )
       ]_vars

\* C13 witness: of two snoozed requests the one snoozed for one hour was
\* re-emitted when the hour had passed, and the other, not yet due, is still
\* in the list.
C13_Witness ==
  /\ now = Hour
  /\ Len(snoozed) = 1
  /\ snoozed[1].remind_time > now
  /\ \E m, k \in DOMAIN prompts :
       /\ m # snoozed[1].message
       /\ prompts[m].state = "snoozed"
       /\ k > m
       /\ prompts[k] = Reminder(prompts[m])

\* the request snoozed from message m is in the list and not yet due
WaitingEarly(m) ==
  \E i \in DOMAIN snoozed :
    snoozed[i].message = m /\ now < snoozed[i].remind_time

\* the request snoozed from message m has left the list and a later message
\* is its reminder
Woken(m) ==
  /\ \A i \in DOMAIN snoozed : snoozed[i].message # m
  /\ \E k \in DOMAIN prompts :
       k > m /\ prompts[k] = [Reminder(prompts[m]) EXCEPT !.state = prompts[k].state]

\* C14: with the snooze job run again and again, every snoozed request whose
\* wake time has come eventually leaves the snoozed list and is presented
\* again by a reminder in the admin chat: again and again a state is reached
\* in which every snoozed request either waits for a time still to come or
\* has been woken (which, once true of a request, stays true).
C14_SnoozedEventuallyWakes ==
  []<>(\A m \in DOMAIN prompts :
         prompts[m].state = "snoozed" => (WaitingEarly(m) \/ Woken(m)))

\* C14 witness: at the end of the clock a request snoozed earlier has left
\* the list and its reminder waits for a decision.
C14_Witness ==
  /\ now = MaxHours * Hour
  /\ \E m \in DOMAIN prompts :
       /\ prompts[m].state = "snoozed"
       /\ Woken(m)
       /\ \E k \in DOMAIN prompts :
            k > m /\ prompts[k] = Reminder(prompts[m])

\* C15: every Actor row created by an approval comes with one notification
\* to the requester and one to the admin chat: once the handler has ended
\* there are as many of each as there are Actor rows of the requester.
C15_ApprovalNotifies ==
  \A u \in Requesters :
    /\ sent[u].approved = Cardinality(ActorsOf(u))
    /\ sent[u].announced = Cardinality(ActorsOf(u))

\* the wrapper of C17: 3 attempts, factor 2, around a function that raises
\* APIError twice and then returns
TwiceThenOk ==
  /\ max_attempts = 3
  /\ backoff_factor = 2
  /\ SubSeq(script, 1, 3) = <<"api", "api", "ok">>

\* C17: with 3 attempts and backoff factor 2, around a call that fails
\* transiently twice and then succeeds, the wrapper keeps going until the
\* third call, returns that call's result and has slept exactly twice, 2 and
\* then 4 seconds.
C17_ThirdAttemptSucceeds ==
  TwiceThenOk =>
    /\ outcome = Running =>
         /\ calls < 3
         /\ attempt = calls + 1
         /\ sleeps = SubSeq(<<2, 4>>, 1, calls)
    /\ outcome # Running =>
         /\ outcome = [kind |-> "returned", value |-> 3]
         /\ calls = 3
         /\ sleeps = <<2, 4>>

\* C17 witness: that wrapper has returned.
C17_Witness ==
  /\ TwiceThenOk
  /\ outcome.kind = "returned"
  /\ calls = 3

\* every call the wrapper can make fails transiently
AlwaysTransient == \A k \in 1..max_attempts : script[k] = "api"

\* C18: for max_attempts >= 1 and any failure pattern the wrapper calls the
\* wrapped function at most max_attempts times and has ended once it has
\* made that many calls; until then its next call is due.  When every call
\* fails transiently it ends after exactly max_attempts calls and
\* max_attempts - 1 sleeps by raising the error of the last call.
C18_BoundedAttempts ==
  max_attempts >= 1 =>
    /\ calls <= max_attempts
    /\ calls = max_attempts => outcome # Running
    /\ outcome = Running => attempt = calls + 1
    /\ (AlwaysTransient /\ outcome # Running) =>
         /\ calls = max_attempts
         /\ Len(sleeps) = max_attempts - 1
         /\ outcome = [kind |-> "raised", value |-> max_attempts]

\* C18 witness: the wrapper with the largest max_attempts, every call failing
\* transiently, has given up.
C18_Witness ==
  /\ max_attempts = MaxAttempts
  /\ AlwaysTransient
  /\ outcome.kind = "raised"
  /\ calls = MaxAttempts

\* C19: when the wrapped call raises an error that is not a transient store
\* error the wrapper raises that error at once, without a sleep, and calls
\* the wrapped function no more.
C19_OtherErrorNotRetried ==
  [][ /\ (calls' = calls + 1 /\ script[calls + 1] = "other") =>
           /\ outcome' = [kind |-> "raised", value |-> calls + 1]
           /\ sleeps' = sleeps
      /\ outcome.kind = "raised" => calls' = calls ]_vars

\* C19 witness: the first call raised another error although further attempts
\* were allowed; the wrapper has raised it after one call and no sleep.
C19_Witness ==
  /\ max_attempts >= 2
  /\ script[1] = "other"
  /\ outcome = [kind |-> "raised", value |-> 1]
  /\ calls = 1
  /\ sleeps = <<>>

\* C16: a command reports a failure to the requester only after the
\* wrapper has called the handler, and with it the failing store call,
\* max_attempts times.
C16_StoreFailureRetried ==
  reply.kind = "error" => calls = max_attempts

\* C20: a command that ends by reporting a failure or a refusal leaves the
\* ledger as it was, and the ledger changes only in a command that reports
\* success.
C20_FailedCommandLeavesLedger ==
  [][ /\ (reply' # reply /\ reply'.kind \in {"error", "already", "inuse"})
           => ledger' = ledger
      /\ ledger' # ledger => reply'.kind \in {"took", "returned"} ]_vars

\* C21: starting with one admin, whatever admins are added and removed the
\* Admins worksheet keeps at least one admin, and a removal attempted while
\* one row is left is refused and changes nothing.
C21_NeverZeroAdmins ==
  /\ [](AdminIds # {})
  /\ [][ (Len(admins) = 1 /\ reply' # reply /\ reply'.action = "remove_admin")
           => (admins' = admins /\ reply'.kind = "last_admin") ]_vars

\* C21 witness: admins were added, all but one were removed, and the removal
\* of the last one, a1 being gone already, was refused.
C21_Witness ==
  /\ Len(admins) = 1
  /\ admins[1].id # "a1"
  /\ reply.action = "remove_admin"
  /\ reply.kind = "last_admin"
  /\ reply.plate = admins[1].id

\* C22: a removal changes a store only when the actor who triggers it is an
\* admin at that moment (here: the removal of an admin and the Admins
\* worksheet); triggered by anyone else it is denied and changes nothing.
C22_RemovalAdminOnly ==
  [][ (reply' # reply /\ reply'.action = "remove_admin")
        => \/ IsAdmin(reply'.user)
           \/ (admins' = admins /\ reply'.kind = "denied") ]_vars

\* C30: the text that completes an add prompt is applied only if its sender
\* is an admin when the text is processed.
C30_RoleCheckedAtText ==
  [][ (reply' # reply /\ reply'.kind = "added")
        => IsAdmin(reply'.user) ]_vars

\* C23: a vehicle whose most recent entry by timestamp is an acquire is
\* not removed from the pool, whatever the order of the rows in the sheet;
\* hence every held vehicle is in the pool.
C23_HeldNotRemoved ==
  /\ [][ (reply' # reply /\ reply'.action = "remove_car"
            /\ Held(ledger, Normalize(reply'.plate)))
           => cars' = cars ]_vars
  /\ [](\A v \in Vehicles :
          Held(ledger, v) => v \in {Normalize(cars[i]) : i \in DOMAIN cars})

\* C24: add_car stores the trimmed, upper-cased plate; a text whose
\* normalized form is in the pool is refused and the pool stays as it is; no
\* two cars of the pool have the same normalized plate.
C24_PlatesNormalizedUnique ==
  /\ [](\A i, j \in DOMAIN cars :
          /\ cars[i] = Normalize(cars[i])
          /\ Normalize(cars[i]) = Normalize(cars[j]) => i = j)
  /\ [][ (reply' # reply /\ reply'.action = "add_car")
           => IF Normalize(reply'.plate) \in
                   {Normalize(cars[i]) : i \in DOMAIN cars}
                THEN cars' = cars /\ reply'.kind = "exists"
                ELSE /\ cars' = Append(cars, Normalize(reply'.plate))
                     /\ reply'.kind = "added" ]_vars

\* "v1" is refused while V1, removed and added again as "v1", is in the pool
C24_Witness ==
  /\ cars = <<"V2", "V1">>
  /\ reply.action = "add_car" /\ reply.plate = "v1" /\ reply.kind = "exists"

\* C26: an acquire is refused with "You already have a car" only if the
\* requesting actor is the projected holder of some vehicle.
C26_AlreadyHoldingOnlyIfHolding ==
  [][ (Answered("take") /\ reply'.kind = "already")
        => HeldBy(ledger, FirstName(reply'.user)) # {} ]_vars

\* the plates of a list as vehicles
VehiclesOf(plates) == {Normalize(plates[i]) : i \in DOMAIN plates}

\* C27: for every content of the log and every actor, the vehicles the
\* return-car list offers are the vehicles whose most recent entry by
\* timestamp is an acquire by that actor, and are the vehicles the acquire
\* command counts for its "already have a car" check.
C27_ReturnListIsProjection ==
  [][ (view' # view /\ view'[1].menu = "return")
        => LET name == FirstName(view'[1].user)
           IN  /\ VehiclesOf(view'[1].cars) = HeldBy(ledger, name)
               /\ VehiclesOf(view'[1].cars) =
                    VehiclesOf(UserCars(SortByTs(ledger), name)) ]_vars

\* C29: an acquire or a release appends an entry only if the actor who
\* issues it is registered, as admin or as driver, when the command is
\* processed; otherwise it is denied and appends nothing.
C29_RegisteredAtCommand ==
  [][ (reply' # reply /\ reply'.action \in {"take", "return"})
        => \/ Registered(reply'.user)
           \/ (ledger' = ledger /\ reply'.kind = "denied") ]_vars

\* C28: possession goes by the actor's id.  When the last entry of the
\* ledger is an acquire by one actor, the vehicle is not offered to another
\* actor for release, and, that acquire being the only entry, no other actor
\* is refused as already having a car, also not one with the same first name.
C28_PossessionByActorId ==
  /\ [][ (view' # view /\ view'[1].menu = "return" /\ reply.kind = "took"
            /\ view'[1].user # reply.user)
           => reply.plate \notin Range(view'[1].cars) ]_vars
  /\ [][ (view' # view /\ view'[1].menu = "take" /\ reply.kind = "took"
            /\ view'[1].user # reply.user /\ Len(ledger) = 1)
           => view'[1].kind # "already" ]_vars
  /\ [][ (reply' # reply /\ reply'.action = "take" /\ reply.kind = "took"
            /\ reply'.user # reply.user /\ Len(ledger) = 1)
           => reply'.kind # "already" ]_vars

\* C25: the ledger is append-only.  In every step, of a command, of an
\* admin operation, of the clock or of the initialization, the ledger before
\* the step is a prefix of the ledger after it, which is longer by at most
\* one entry.
C25_LedgerAppendOnly ==
  [][ /\ Len(ledger) <= Len(ledger') /\ Len(ledger') <= Len(ledger) + 1
      /\ SubSeq(ledger', 1, Len(ledger)) = ledger ]_vars

\* the durations that are switched on in the settings
AllowedHours == {h \in SnoozeHours : settings[SnoozeKey(h)] = "True"}

\* C31: a snoozed request is created only for a duration that is switched on
\* in the settings, whatever duration the decision carries.
C31_SnoozeOnlyAllowed ==
  [][ Len(snoozed') > Len(snoozed)
        => \E h \in AllowedHours :
             Last(snoozed').remind_time = now + h * Hour ]_vars

\* the other value of a setting
Opposite(value) == IF value = "True" THEN "False" ELSE "True"

\* C32: a toggle changes the stored value of its setting to the opposite and
\* leaves every other setting as it is.
C32_ToggleFlipsOneSetting ==
  [][ (reply' # reply /\ reply'.action \in ToggleActions)
        => settings' = [settings EXCEPT
                          ![SettingOf(reply'.action)[1]] = Opposite(@)] ]_vars

\* C33: removing a driver removes exactly the selected record.  The button
\* of a listed driver carries the driver's name; whichever listed driver the
\* pressed button belongs to, the Drivers rows afterwards are the rows before
\* without that one row.
C33_RemovesSelectedDriver ==
  [][ (reply' # reply /\ reply'.action = "remove_driver"
         /\ reply'.kind = "removed")
        => \A i \in DOMAIN drivers :
             drivers[i].name = reply'.plate => drivers' = DeleteRow(drivers, i)
    ]_vars

\* C34: a release does not postpone maintenance that is scheduled.  For a
\* car whose record has a Next Maintenance, the release of the car leaves
\* Next Maintenance where it is or moves it to an earlier time.
C34_ReleaseNeverPostpones ==
  [][ \A i \in DOMAIN maintenance :
        ( /\ Answered("return") /\ reply'.kind = "returned"
          /\ maintenance[i].plate = reply'.plate
          /\ maintenance[i].next # Empty )
        => maintenance'[i].next <= maintenance[i].next ]_vars

====
